---- MODULE Spec2Model ----
(***************************************************************************)
(* Model of solve_subsistence_problem (src/Project2/diet_problem2.ipynb,   *)
(* lines 57-133): the construction of the linear program (p, A, b) from a  *)
(* catalogue of nutrient yields, a price series and two series of bounds,  *)
(* the optional total-weight row, the call of the linear-programming       *)
(* backend and the result record.                                          *)
(*                                                                         *)
(* backend is the environment of the call: whether the numeric backend      *)
(* converges on the problems it is given or breaks down on them.  calls    *)
(* counts the calls that have ended.                                       *)
(*                                                                         *)
(* tab, excess and printed are what the analysis cell of the notebook      *)
(* (lines 615-636) makes of the result of a call: the table of outcomes    *)
(* and recommendations, their differences, and what the cell prints.       *)
(*                                                                         *)
(* A pandas Series is a record [index, values] of two sequences of equal   *)
(* length; a DataFrame is a record [index, columns, values] where values   *)
(* is a sequence of rows.  Labels are addressed by position, so that an    *)
(* index that repeats a label is representable.  A floating-point cell is  *)
(* a record [nan, v]: nan is the missing marker, v an integer.             *)
(***************************************************************************)
EXTENDS Integers, Sequences, FiniteSets, TLC

VARIABLES FoodNutrients, Prices, dietmin, dietmax, max_weight,
          p, A, b, result, pc, backend, calls,
          tab, excess, printed

inputs == <<FoodNutrients, Prices, dietmin, dietmax, max_weight>>
analysis == <<tab, excess, printed>>
vars == <<FoodNutrients, Prices, dietmin, dietmax, max_weight,
          p, A, b, result, pc, backend, calls,
          tab, excess, printed>>

-----------------------------------------------------------------------------
(* Bounds of the model.                                                    *)

\* the number of goods that price series and catalogues are drawn over
NumGoods == 2
\* the backend's candidate quantities are 0..MaxQty per good
MaxQty == 2
\* the number of calls that follow the first one
MaxCalls == 2

-----------------------------------------------------------------------------
(* Floating-point cells.                                                   *)

NaN == [nan |-> TRUE, v |-> 0]
Num(n) == [nan |-> FALSE, v |-> n]
IsNaN(x) == x.nan

\* unary minus of numpy: the missing marker stays missing
Neg(x) == IF x.nan THEN x ELSE Num(-(x.v))

-----------------------------------------------------------------------------
(* Sequences.                                                              *)

RECURSIVE Flatten(_)
Flatten(ss) == IF ss = <<>> THEN <<>> ELSE Head(ss) \o Flatten(Tail(ss))

Range(s) == {s[i] : i \in 1..Len(s)}

IsUnique(s) == \A i, j \in 1..Len(s) : s[i] = s[j] => i = j

\* the positions of labels, ascending, that carry label l
PositionsOf(labels, l) ==
  Flatten([i \in 1..Len(labels) |-> IF labels[i] = l THEN <<i>> ELSE <<>>])

Take(s, pos) == [k \in 1..Len(pos) |-> s[pos[k]]]

\* first position of label l in labels, 0 when absent
FirstPos(labels, l) ==
  IF l \in Range(labels)
    THEN CHOOSE i \in 1..Len(labels) :
           labels[i] = l /\ \A j \in 1..(i-1) : labels[j] # l
    ELSE 0

-----------------------------------------------------------------------------
(* pandas Index.                                                           *)

\* Index.unique: first occurrences, in order
Unique(labels) ==
  Take(labels, Flatten([i \in 1..Len(labels) |->
                          IF FirstPos(labels, labels[i]) = i THEN <<i>> ELSE <<>>]))

\* left.intersection(right): the labels of left that right holds, each once,
\* in the order of left
IndexIntersection(left, right) ==
  Unique(SelectSeq(left, LAMBDA l : l \in Range(right)))

\* label-list lookup: every position of labels that carries a wanted label,
\* in the order of wanted
LocIndexer(labels, wanted) ==
  Flatten([k \in 1..Len(wanted) |-> PositionsOf(labels, wanted[k])])

\* reindex raises on an axis that repeats a label, unless the target is the
\* axis itself
CanReindex(labels, target) == labels = target \/ IsUnique(labels)

-----------------------------------------------------------------------------
(* pandas Series.                                                          *)

EmptySeries == [index |-> <<>>, values |-> <<>>]

SeriesTake(s, pos) == [index |-> Take(s.index, pos), values |-> Take(s.values, pos)]

\* s[labels]
SeriesGetItems(s, labels) == SeriesTake(s, LocIndexer(s.index, labels))

SeriesNeg(s) == [index |-> s.index, values |-> [i \in 1..Len(s.values) |-> Neg(s.values[i])]]

SeriesConcat(s, t) == [index |-> s.index \o t.index, values |-> s.values \o t.values]

\* s.loc[label] = x: every entry that carries the label is overwritten; the
\* series is enlarged by one entry when none does
SeriesSetLoc(s, label, x) ==
  IF label \in Range(s.index)
    THEN [index |-> s.index,
          values |-> [i \in 1..Len(s.values) |-> IF s.index[i] = label THEN x ELSE s.values[i]]]
    ELSE [index |-> Append(s.index, label), values |-> Append(s.values, x)]

-----------------------------------------------------------------------------
(* pandas DataFrame.                                                       *)

EmptyFrame == [index |-> <<>>, columns |-> <<>>, values |-> <<>>]

\* F[labels]: the columns that carry the labels, in the order of labels
FrameSelectColumns(F, labels) ==
  LET pos == LocIndexer(F.columns, labels)
  IN  [index |-> F.index, columns |-> Take(F.columns, pos),
       values |-> [r \in 1..Len(F.index) |-> Take(F.values[r], pos)]]

\* F.fillna(0)
FrameFillna(F) ==
  [index |-> F.index, columns |-> F.columns,
   values |-> [r \in 1..Len(F.index) |->
                 [c \in 1..Len(F.columns) |->
                    IF IsNaN(F.values[r][c]) THEN Num(0) ELSE F.values[r][c]]]]

\* F.loc[labels]: the rows that carry the labels, in the order of labels
FrameLocRows(F, labels) ==
  LET pos == LocIndexer(F.index, labels)
  IN  [index |-> Take(F.index, pos), columns |-> F.columns, values |-> Take(F.values, pos)]

\* F.reindex(target, axis=0): one row per target label, the row of F that
\* carries it, or a row of missing markers when F has none
FrameReindexRows(F, target) ==
  IF F.index = target THEN F
  ELSE [index |-> target, columns |-> F.columns,
        values |-> [k \in 1..Len(target) |->
                      IF FirstPos(F.index, target[k]) = 0
                        THEN [c \in 1..Len(F.columns) |-> NaN]
                        ELSE F.values[FirstPos(F.index, target[k])]]]

\* F.reindex(target, axis=1)
FrameReindexColumns(F, target) ==
  IF F.columns = target THEN F
  ELSE [index |-> F.index, columns |-> target,
        values |-> [r \in 1..Len(F.index) |->
                      [k \in 1..Len(target) |->
                         IF FirstPos(F.columns, target[k]) = 0
                           THEN NaN
                           ELSE F.values[r][FirstPos(F.columns, target[k])]]]]

\* -F
FrameNeg(F) ==
  [index |-> F.index, columns |-> F.columns,
   values |-> [r \in 1..Len(F.index) |->
                 [c \in 1..Len(F.columns) |-> Neg(F.values[r][c])]]]

\* pd.concat([F, G]) of two frames with the same columns
FrameConcat(F, G) ==
  [index |-> F.index \o G.index, columns |-> F.columns, values |-> F.values \o G.values]

\* F.loc[label] = x with a scalar x: every row that carries the label is
\* overwritten; the frame is enlarged by one row when none does
FrameSetLoc(F, label, x) ==
  IF label \in Range(F.index)
    THEN [index |-> F.index, columns |-> F.columns,
          values |-> [r \in 1..Len(F.index) |->
                        IF F.index[r] = label
                          THEN [c \in 1..Len(F.columns) |-> x]
                          ELSE F.values[r]]]
    ELSE [index |-> Append(F.index, label), columns |-> F.columns,
          values |-> Append(F.values, [c \in 1..Len(F.columns) |-> x])]

\* setting a row by a label the frame lacks raises when it has no columns
FrameSetLocRaises(F, label) == label \notin Range(F.index) /\ F.columns = <<>>

-----------------------------------------------------------------------------
(* The inputs that are drawn.                                              *)

GoodNames == <<"A", "B", "C">>
Goods == {GoodNames[i] : i \in 1..NumGoods}

\* the label that line 115 gives the weight row is a label like any other
Hectograms == "Hectograms"
Nutrients == {"N", Hectograms}

\* the yield of a nutrient per unit of a good; the catalogue has no value
\* for some pairs
Yield(n, g) ==
  CASE n = "N" /\ g = "A" -> Num(10)
    [] n = "N" /\ g = "B" -> Num(5)
    [] n = "N" /\ g = "C" -> NaN
    [] n = Hectograms /\ g = "A" -> Num(1)
    [] n = Hectograms /\ g = "B" -> NaN
    [] OTHER -> Num(1)

PriceOf(g) == CASE g = "A" -> 1 [] g = "B" -> 2 [] OTHER -> 3
MinOf(n) == IF n = "N" THEN 10 ELSE 1
MaxOf(n) == IF n = "N" THEN 20 ELSE 2
Weights == {3}

\* the rows of the catalogues that are drawn: one has a row for each nutrient
\* that can be bounded, the other lacks one and has a row that is never bounded
CatalogueRows == {<<Hectograms, "N">>, <<"N", "Fiber">>}

\* the sequences of distinct elements of S, of length at most k
DistinctSeqs(S, k) ==
  {s \in UNION {[1..n -> S] : n \in 0..k} : IsUnique(s)}

\* the orders in which a price series or a catalogue lists goods
GoodOrders == DistinctSeqs(Goods, NumGoods) \ {<<>>}

\* the orders in which a series of bounds lists nutrients
NutrientOrders == DistinctSeqs(Nutrients, Cardinality(Nutrients))

\* a price is a quantity with a unit (it has a magnitude) or a plain float
PriceSeries(idx, missing, units) ==
  [index |-> idx,
   values |-> [i \in 1..Len(idx) |->
                 [hasMagnitude |-> units,
                  magnitude |-> IF idx[i] \in missing THEN NaN ELSE Num(PriceOf(idx[i]))]]]

\* rows are nutrients, columns are goods
Catalogue(rows, cols) ==
  [index |-> rows, columns |-> cols,
   values |-> [r \in 1..Len(rows) |-> [c \in 1..Len(cols) |-> Yield(rows[r], cols[c])]]]

MinSeries(idx) == [index |-> idx, values |-> [i \in 1..Len(idx) |-> Num(MinOf(idx[i]))]]
MaxSeries(idx) == [index |-> idx, values |-> [i \in 1..Len(idx) |-> Num(MaxOf(idx[i]))]]

\* max_weight: None or a number
NoWeight == [given |-> FALSE, v |-> 0]
Weight(w) == [given |-> TRUE, v |-> w]

-----------------------------------------------------------------------------
(* The linear-programming backend, scipy.optimize.linprog(c, A_ub, b_ub):  *)
(* minimise c.x subject to A_ub.x <= b_ub and x >= 0.  The candidate       *)
(* quantity vectors are those over 0..MaxQty.                              *)

RECURSIVE Sum(_)
Sum(s) == IF s = <<>> THEN 0 ELSE Head(s) + Sum(Tail(s))

Dot(u, x) == Sum([i \in 1..Len(x) |-> u[i] * x[i]])

Candidates(n) == [1..n -> 0..MaxQty]

\* a backend of greater-than-or-equal constraints
LpFeasibleAtLeast(A_ub, b_ub, x) == \A i \in 1..Len(b_ub) : Dot(A_ub[i], x) >= b_ub[i]

LpFeasible(A_ub, b_ub, x) == \A i \in 1..Len(b_ub) : Dot(A_ub[i], x) <= b_ub[i]

LpFeasibleSet(n, A_ub, b_ub) == {x \in Candidates(n) : LpFeasible(A_ub, b_ub, x)}

\* the backend refuses an empty cost vector and any missing marker
LpRaises(c, A_ub, b_ub) ==
  \/ Len(c) = 0
  \/ \E i \in 1..Len(c) : IsNaN(c[i])
  \/ \E i \in 1..Len(A_ub) : \E j \in 1..Len(A_ub[i]) : IsNaN(A_ub[i][j])
  \/ \E i \in 1..Len(b_ub) : IsNaN(b_ub[i])

Ints(s) == [i \in 1..Len(s) |-> s[i].v]

\* the OptimizeResult: status 0 is an optimum, status 2 an infeasible problem
lp(c, A_ub, b_ub) ==
  LET n == Len(c)
      cost == Ints(c)
      rows == [i \in 1..Len(A_ub) |-> Ints(A_ub[i])]
      rhs == Ints(b_ub)
      F == LpFeasibleSet(n, rows, rhs)
      costs == {Dot(cost, x) : x \in F}
      least == CHOOSE m \in costs : \A k \in costs : m <= k
      best == CHOOSE x \in F : Dot(cost, x) = least
      last == [i \in 1..n |-> 0]
  IN  IF F # {}
        THEN [success |-> TRUE, status |-> 0, x |-> best, fun |-> Dot(cost, best)]
        ELSE [success |-> FALSE, status |-> 2, x |-> last, fun |-> Dot(cost, last)]

Converges == "converges"
BreaksDown == "breaks down"

\* the OptimizeResult of a backend that meets numerical difficulties: status 4
\* and the iterate it stopped at
lpBreakdown(c) ==
  LET last == [i \in 1..Len(c) |-> 0]
  IN  [success |-> FALSE, status |-> 4, x |-> last, fun |-> Dot(Ints(c), last)]

\* line 122: the call of the backend
Backend(c, A_ub, b_ub) ==
  IF backend = BreaksDown THEN lpBreakdown(c) ELSE lp(c, A_ub, b_ub)

-----------------------------------------------------------------------------
(* solve_subsistence_problem, block by block.                              *)

\* pd.isna of a price: a quantity object is never missing, whatever its magnitude
IsMissing(e) == ~e.hasMagnitude /\ IsNaN(e.magnitude)

\* a conversion that makes a missing price of every price without a magnitude
MagnitudesOrMissing(P) ==
  [index |-> P.index,
   values |-> [i \in 1..Len(P.values) |->
                 [hasMagnitude |-> FALSE,
                  magnitude |-> IF P.values[i].hasMagnitude
                                  THEN P.values[i].magnitude
                                  ELSE NaN]]]

\* lines 71-75: the magnitudes of the prices, or the prices themselves when
\* one of them has no magnitude
Magnitudes(P) ==
  IF \A i \in 1..Len(P.values) : P.values[i].hasMagnitude
    THEN [index |-> P.index,
          values |-> [i \in 1..Len(P.values) |->
                        [hasMagnitude |-> FALSE, magnitude |-> P.values[i].magnitude]]]
    ELSE P

\* a vector of prices that keeps the missing ones
SeriesKeepna(s) == s

\* line 77: p.dropna()
SeriesDropna(s) ==
  SeriesTake(s, Flatten([i \in 1..Len(s.values) |->
                           IF IsMissing(s.values[i]) THEN <<>> ELSE <<i>>]))

\* every priced good, whether the catalogue has it or not
PricedGoods(s, F) == Unique(s.index)

\* line 80: the goods that have a price and a column of the catalogue
UsableGoods(s, F) == IndexIntersection(s.index, F.columns)

\* lines 77-81
PriceVector(P, F) ==
  LET q == SeriesDropna(Magnitudes(P))
  IN  SeriesGetItems(q, UsableGoods(q, F))

\* line 85
Aall(F, q) == FrameFillna(FrameSelectColumns(F, q.index))

\* lines 88-89 and 95-96: the rows of one block, in the order of its bounds
Block(F, bounds) ==
  FrameReindexRows(FrameLocRows(F, IndexIntersection(F.index, bounds.index)), bounds.index)

BlockRaises(F, bounds) ==
  ~CanReindex(FrameLocRows(F, IndexIntersection(F.index, bounds.index)).index, bounds.index)

\* the two blocks stacked in the other order
StackASwapped(Amin, Amax) == FrameConcat(FrameNeg(Amax), Amin)

\* lines 103-104
StackA(Amin, Amax) == FrameConcat(Amin, FrameNeg(Amax))

\* the bounds of a nutrient that has both merged into one entry
StackBMerged(bmin, bmax) ==
  LET s == SeriesConcat(bmin, SeriesNeg(bmax))
  IN  SeriesTake(s, Flatten([i \in 1..Len(s.index) |->
                               IF FirstPos(s.index, s.index[i]) = i THEN <<i>> ELSE <<>>]))

\* lines 106-107
StackB(bmin, bmax) == SeriesConcat(bmin, SeriesNeg(bmax))

\* the columns put in the order of the catalogue instead of that of p
AlignToCatalogue(M, q, rhs) ==
  FrameReindexRows(FrameReindexColumns(M, FoodNutrients.columns), rhs.index)

\* lines 110-111
Align(M, q, rhs) == FrameReindexRows(FrameReindexColumns(M, q.index), rhs.index)

AlignRaises(M, q, rhs) ==
  ~CanReindex(M.columns, q.index) \/ ~CanReindex(M.index, rhs.index)

\* lines 71-111: the matrix of the instance before the weight row
InstanceA(F, P, bmin, bmax) ==
  LET q == PriceVector(P, F)
      all == Aall(F, q)
  IN  Align(StackA(Block(all, bmin), Block(all, bmax)), q, StackB(bmin, bmax))

\* lines 71-111: the exceptions of the reindexing steps
InstanceRaises(F, P, bmin, bmax) ==
  LET q == PriceVector(P, F)
      all == Aall(F, q)
  IN  \/ BlockRaises(all, bmin)
      \/ BlockRaises(all, bmax)
      \/ AlignRaises(StackA(Block(all, bmin), Block(all, bmax)), q, StackB(bmin, bmax))

\* the cost vector handed to the backend
CostVector(q) == [i \in 1..Len(q.values) |-> q.values[i].magnitude]

\* the matrix handed over without the change of sign
LpMatrixUnnegated(M) == M.values

\* line 122: the arguments -A and -b of the less-than-or-equal backend
LpMatrix(M) == FrameNeg(M).values

\* the bounds handed over without the change of sign
LpBoundsUnnegated(rhs) == rhs.values

LpBounds(rhs) == SeriesNeg(rhs).values

\* the quantities under the goods in the order of the catalogue
DietByCatalogue(r, q) ==
  [index |-> FoodNutrients.columns,
   values |-> [i \in 1..Len(FoodNutrients.columns) |->
                 IF r.success /\ i <= Len(r.x) THEN Num(r.x[i]) ELSE NaN]]

\* lines 127-131: the quantities under the goods of p, all missing on failure
Diet(r, q) ==
  [index |-> q.index,
   values |-> [i \in 1..Len(q.index) |-> IF r.success THEN Num(r.x[i]) ELSE NaN]]

\* a result that reports every failure as an infeasible problem
ReturnedAsInfeasible(r, M, rhs, q) ==
  [success |-> r.success, status |-> IF r.success THEN 0 ELSE 2,
   x |-> r.x, fun |-> r.fun,
   A |-> M, b |-> rhs, diet |-> Diet(r, q)]

\* lines 122-133: the backend's result with A, b and diet attached
Returned(r, M, rhs, q) ==
  [success |-> r.success, status |-> r.status, x |-> r.x, fun |-> r.fun,
   A |-> M, b |-> rhs, diet |-> Diet(r, q)]

NoResult ==
  [success |-> FALSE, status |-> 0, x |-> <<>>, fun |-> 0,
   A |-> EmptyFrame, b |-> EmptySeries, diet |-> EmptySeries]

-----------------------------------------------------------------------------
(* The analysis cell, lines 615-636, operator by operator.  Quantities and *)
(* amounts of nutrients are counted in halves of 1e-6, so that the cell's  *)
(* tol = 1e-6 is 2 and an amount of 1 lies strictly between 0 and tol.     *)

\* line 616: tol = 1e-6
tol == 2

\* np.abs of a cell: the missing marker stays missing
Abs(x) == IF IsNaN(x) THEN x ELSE Num(IF x.v < 0 THEN -(x.v) ELSE x.v)

\* the difference of two cells, missing when one of them is
CellSub(x, y) == IF IsNaN(x) \/ IsNaN(y) THEN NaN ELSE Num(x.v - y.v)

\* the sum of the products of two rows of cells, missing when a cell is
CellDot(u, x) ==
  IF \E i \in 1..Len(x) : IsNaN(u[i]) \/ IsNaN(x[i])
    THEN NaN
    ELSE Num(Dot(Ints(u), Ints(x)))

\* a comparison with a missing cell is False
AtLeast(x, t) == ~IsNaN(x) /\ x.v >= t
Below(x, t) == ~IsNaN(x) /\ x.v < t

\* the positions a boolean mask keeps, ascending
MaskPositions(mask) ==
  Flatten([i \in 1..Len(mask) |-> IF mask[i] THEN <<i>> ELSE <<>>])

SeriesAbs(s) == [index |-> s.index, values |-> [i \in 1..Len(s.values) |-> Abs(s.values[i])]]

FrameAbs(F) ==
  [index |-> F.index, columns |-> F.columns,
   values |-> [r \in 1..Len(F.values) |->
                 [j \in 1..Len(F.values[r]) |-> Abs(F.values[r][j])]]]

\* F.dot(s): the entries of s are matched with the columns of F by label
FrameDot(F, s) ==
  [index |-> F.index,
   values |-> [r \in 1..Len(F.index) |->
                 CellDot(F.values[r], SeriesGetItems(s, F.columns).values)]]

\* a table that takes the outcome from the rows of A as they are
TabSigned(r) ==
  LET outcome == FrameDot(r.A, r.diet)
      recommendation == SeriesAbs(r.b)
  IN  [index |-> outcome.index, columns |-> <<"Outcome", "Recommendation">>,
       values |-> [i \in 1..Len(outcome.index) |->
                     <<outcome.values[i], recommendation.values[i]>>]]

\* lines 629-631: the two columns have the index of A and of b, which are
\* equal, so the table pairs them by position
Tab(r) ==
  LET outcome == FrameDot(FrameAbs(r.A), r.diet)
      recommendation == SeriesAbs(r.b)
  IN  [index |-> outcome.index, columns |-> <<"Outcome", "Recommendation">>,
       values |-> [i \in 1..Len(outcome.index) |->
                     <<outcome.values[i], recommendation.values[i]>>]]

\* line 635: tab.diff(axis=1).iloc[:,1], the recommendation less the outcome
Excess(t) ==
  [index |-> t.index,
   values |-> [i \in 1..Len(t.index) |-> CellSub(t.values[i][2], t.values[i][1])]]

\* a report of the quantities that exceed tol
PrintedDietStrict(diet) ==
  SeriesTake(diet, MaskPositions([i \in 1..Len(diet.values) |->
                                    ~IsNaN(diet.values[i]) /\ diet.values[i].v > tol]))

\* line 626: diet[diet >= tol]
PrintedDiet(diet) ==
  SeriesTake(diet, MaskPositions([i \in 1..Len(diet.values) |->
                                    AtLeast(diet.values[i], tol)]))

\* a list of the lines within tol itself
ConstrainingWithinTol(e) ==
  SeriesTake(e, MaskPositions([i \in 1..Len(e.values) |->
                                 Below(Abs(e.values[i]), tol)])).index

\* line 636: excess.loc[np.abs(excess) < tol*100].index.tolist()
Constraining(e) ==
  SeriesTake(e, MaskPositions([i \in 1..Len(e.values) |->
                                 Below(Abs(e.values[i]), tol * 100)])).index

\* the notebook before the analysis cell has run
NoAnalysis ==
  /\ tab = [index |-> <<>>, columns |-> <<"Outcome", "Recommendation">>, values |-> <<>>]
  /\ excess = EmptySeries
  /\ printed = [cost |-> 0, diet |-> EmptySeries, constraining |-> <<>>]

-----------------------------------------------------------------------------

\* line 57: the locals of a call that has not begun
Entry ==
  /\ p = EmptySeries
  /\ A = EmptyFrame
  /\ b = EmptySeries
  /\ result = NoResult
  /\ pc = "start"

\* The price series that are drawn hold quantities with units, some of them
\* with a missing magnitude, as line 547 builds them, or hold plain floats.
Init ==
  /\ \E idx \in GoodOrders :
       \/ \E missing \in SUBSET Range(idx) : Prices = PriceSeries(idx, missing, TRUE)
       \/ Prices = PriceSeries(idx, {}, FALSE)
  /\ \E rows \in CatalogueRows :
       \E cols \in GoodOrders :
         FoodNutrients = Catalogue(rows, cols)
  /\ \E idx \in NutrientOrders :
       dietmin = MinSeries(idx)
  /\ \E idx \in NutrientOrders :
       dietmax = MaxSeries(idx)
  /\ max_weight \in {NoWeight} \cup {Weight(w) : w \in Weights}
  /\ backend = Converges
  /\ calls = 0
  /\ NoAnalysis
  /\ Entry

\* a build that fills the zeros into the caller's catalogue and negates the
\* caller's maximum bounds themselves
BuildInstanceInPlace ==
  /\ pc = "start"
  /\ p' = PriceVector(Prices, FoodNutrients)
  /\ FoodNutrients' = FrameFillna(FoodNutrients)
  /\ dietmax' = SeriesNeg(dietmax)
  /\ IF InstanceRaises(FoodNutrients, Prices, dietmin, dietmax)
       THEN /\ pc' = "build_raised"
            /\ UNCHANGED <<A, b>>
       ELSE /\ A' = InstanceA(FoodNutrients, Prices, dietmin, dietmax)
            /\ b' = StackB(dietmin, dietmax)
            /\ pc' = "built"
  /\ UNCHANGED <<Prices, dietmin, max_weight, result, backend, calls, analysis>>

\* lines 71-111
BuildInstance ==
  /\ pc = "start"
  /\ p' = PriceVector(Prices, FoodNutrients)
  /\ IF InstanceRaises(FoodNutrients, Prices, dietmin, dietmax)
       THEN /\ pc' = "build_raised"
            /\ UNCHANGED <<A, b>>
       ELSE /\ A' = InstanceA(FoodNutrients, Prices, dietmin, dietmax)
            /\ b' = StackB(dietmin, dietmax)
            /\ pc' = "built"
  /\ UNCHANGED <<inputs, result, backend, calls, analysis>>

\* lines 113-116, max_weight is None
NoWeightRow ==
  /\ pc = "built"
  /\ ~max_weight.given
  /\ pc' = "ready"
  /\ UNCHANGED <<inputs, p, A, b, result, backend, calls, analysis>>

\* lines 113-116, max_weight is given
WeightRow ==
  /\ pc = "built"
  /\ max_weight.given
  /\ IF FrameSetLocRaises(A, Hectograms)
       THEN /\ pc' = "weight_raised"
            /\ UNCHANGED <<A, b>>
       ELSE /\ A' = FrameSetLoc(A, Hectograms, Num(-1))
            /\ b' = SeriesSetLoc(b, Hectograms, Num(-(max_weight.v)))
            /\ pc' = "ready"
  /\ UNCHANGED <<inputs, p, result, backend, calls, analysis>>

\* a call that answers with the result an earlier call left behind
SolveMemoised ==
  /\ pc = "ready"
  /\ IF result # NoResult
       THEN /\ pc' = "done"
            /\ UNCHANGED result
       ELSE IF LpRaises(CostVector(p), LpMatrix(A), LpBounds(b))
              THEN /\ pc' = "lp_raised"
                   /\ UNCHANGED result
              ELSE /\ result' = Returned(Backend(CostVector(p), LpMatrix(A), LpBounds(b)), A, b, p)
                   /\ pc' = "done"
  /\ UNCHANGED <<inputs, p, A, b, backend, calls, analysis>>

\* lines 122-133
Solve ==
  /\ pc = "ready"
  /\ LET c == CostVector(p)
         A_ub == LpMatrix(A)
         b_ub == LpBounds(b)
     IN  IF LpRaises(c, A_ub, b_ub)
           THEN /\ pc' = "lp_raised"
                /\ UNCHANGED result
           ELSE /\ result' = Returned(Backend(c, A_ub, b_ub), A, b, p)
                /\ pc' = "done"
  /\ UNCHANGED <<inputs, p, A, b, backend, calls, analysis>>

Next == BuildInstance \/ NoWeightRow \/ WeightRow \/ Solve

Spec == Init /\ [][Next]_vars

\* the call ended with an exception
Raised == pc \in {"build_raised", "weight_raised", "lp_raised"}

-----------------------------------------------------------------------------
(* Properties.                                                             *)

HasPrice(g) ==
  \E i \in 1..Len(Prices.index) :
    Prices.index[i] = g /\ ~IsNaN(Prices.values[i].magnitude)

InCatalogue(g) == g \in Range(FoodNutrients.columns)

Usable == {g \in Goods : HasPrice(g) /\ InCatalogue(g)}

\* C1: when the call returns, the goods of the cost vector p, the columns of
\* the matrix attached to the result and the index of result.diet are the
\* same sequence of goods.
C1_Alignment ==
  pc = "done" =>
    /\ result.A.columns = p.index
    /\ result.diet.index = p.index
    /\ Len(result.x) = Len(p.index)

\* two usable goods that the price series and the catalogue list in
\* different orders, solved
C1_Witness ==
  /\ pc = "done"
  /\ result.success
  /\ Len(p.index) = 2
  /\ Len(Prices.index) = 2
  /\ Len(FoodNutrients.columns) = 2
  /\ Prices.index # FoodNutrients.columns

IntRows(F) == [r \in 1..Len(F.values) |-> Ints(F.values[r])]

\* x >= 0 and A.x >= b, row by row
Satisfies(F, rhs, x) ==
  /\ \A i \in 1..Len(x) : x[i] >= 0
  /\ \A r \in 1..Len(rhs.values) : Dot(IntRows(F)[r], x) >= rhs.values[r].v

\* C2: on success the returned quantities are non-negative, satisfy every row
\* of the built instance, and cost no more than any other non-negative
\* quantity vector that satisfies every row.
C2_Optimal ==
  (pc = "done" /\ result.success) =>
    LET x == Ints(result.diet.values)
        c == Ints(CostVector(p))
    IN  /\ Satisfies(result.A, result.b, x)
        /\ result.fun = Dot(c, x)
        /\ \A y \in Candidates(Len(x)) :
             Satisfies(result.A, result.b, y) => Dot(c, x) <= Dot(c, y)

\* a solved instance with a minimum row and a maximum row, in which
\* something is bought
C2_Witness ==
  /\ pc = "done"
  /\ result.success
  /\ dietmin.index # <<>>
  /\ dietmax.index # <<>>
  /\ \E i \in 1..Len(result.x) : result.x[i] > 0

\* C3: a good whose price is missing is no good of the cost vector, no
\* column of the constraint matrix and no entry of the returned quantities.
C3_NoPriceNeverAppears ==
  \A g \in Goods :
    ~HasPrice(g) =>
      /\ g \notin Range(p.index)
      /\ g \notin Range(A.columns)
      /\ g \notin Range(result.A.columns)
      /\ g \notin Range(result.diet.index)

\* a good of the catalogue whose price is the missing marker, beside a
\* usable good, solved
C3_Witness ==
  /\ pc = "done"
  /\ p.index # <<>>
  /\ \E g \in Goods :
       /\ g \in Range(Prices.index)
       /\ ~HasPrice(g)
       /\ InCatalogue(g)

\* C4: the goods used are exactly those that have a price and a column of
\* the catalogue, and dropping the others raises no error.
C4_UsableIsIntersection ==
  /\ pc # "build_raised"
  /\ pc # "start" =>
       /\ Range(p.index) = Usable
       /\ IsUnique(p.index)
  /\ pc \in {"built", "ready", "done"} => Range(A.columns) = Usable

\* a priced good that the catalogue lacks is dropped beside a usable good
C4_Witness ==
  /\ pc = "built"
  /\ Usable # {}
  /\ \E g \in Goods : HasPrice(g) /\ ~InCatalogue(g)

\* a good of the catalogue that has no price is dropped beside a usable good
C4_WitnessUnpriced ==
  /\ pc = "built"
  /\ Usable # {}
  /\ \E g \in Goods : ~HasPrice(g) /\ InCatalogue(g)

\* the positions of the nutrient rows that carry label n
RowsOf(n) ==
  {i \in 1..(Len(dietmin.index) + Len(dietmax.index)) :
     i <= Len(A.index) /\ A.index[i] = n}

MinBlock == 1..Len(dietmin.index)
MaxBlock == (Len(dietmin.index) + 1)..(Len(dietmin.index) + Len(dietmax.index))

\* C5: a nutrient with only a minimum bound has exactly one row, a nutrient
\* with both bounds has exactly two, one in the minimums block and one in the
\* maximums block behind it, and building them does not fail.
C5_RowsPerNutrient ==
  /\ pc # "build_raised"
  /\ pc \in {"built", "ready", "done"} =>
       \A n \in Nutrients :
         /\ (n \in Range(dietmin.index) /\ n \notin Range(dietmax.index)) =>
              /\ Cardinality(RowsOf(n)) = 1
              /\ RowsOf(n) \subseteq MinBlock
         /\ (n \in Range(dietmin.index) /\ n \in Range(dietmax.index)) =>
              /\ Cardinality(RowsOf(n)) = 2
              /\ Cardinality(RowsOf(n) \cap MinBlock) = 1
              /\ Cardinality(RowsOf(n) \cap MaxBlock) = 1

\* one nutrient with both bounds beside one with a minimum only
C5_Witness ==
  /\ pc = "built"
  /\ Usable # {}
  /\ \E n \in Nutrients : n \in Range(dietmin.index) /\ n \in Range(dietmax.index)
  /\ \E n \in Nutrients : n \in Range(dietmin.index) /\ n \notin Range(dietmax.index)

\* the number of rows the bounds and the weight call for
RowsExpected ==
  Len(dietmin.index) + Len(dietmax.index) + (IF max_weight.given THEN 1 ELSE 0)

\* C6: the instance handed to the backend has one column per usable good and
\* one row per minimum bound, per maximum bound and for the weight, in the
\* matrix and in the bound vector.
C6_Shape ==
  pc \in {"ready", "done"} =>
    /\ Len(A.columns) = Cardinality(Usable)
    /\ \A r \in 1..Len(A.values) : Len(A.values[r]) = Cardinality(Usable)
    /\ Len(A.index) = RowsExpected
    /\ Len(A.values) = RowsExpected
    /\ Len(b.index) = RowsExpected
    /\ Len(b.values) = RowsExpected

\* the yield the claim speaks of: the value of the catalogue, 0 where it has none
KnownYield(n, g) ==
  IF \E r \in 1..Len(FoodNutrients.index), c \in 1..Len(FoodNutrients.columns) :
       /\ FoodNutrients.index[r] = n
       /\ FoodNutrients.columns[c] = g
       /\ ~IsNaN(FoodNutrients.values[r][c])
    THEN LET r == FirstPos(FoodNutrients.index, n)
             c == FirstPos(FoodNutrients.columns, g)
         IN  FoodNutrients.values[r][c]
    ELSE Num(0)

\* C7: the rows built by lines 88-111 are the minimum bounds in their order,
\* each with the yields of its nutrient and its bound, then the maximum
\* bounds in their order, each with the negated yields and the negated bound.
C7_RowsInOrder ==
  pc = "built" =>
    /\ Len(A.index) = Len(dietmin.index) + Len(dietmax.index)
    /\ \A i \in 1..Len(dietmin.index) :
         /\ A.index[i] = dietmin.index[i]
         /\ b.values[i] = dietmin.values[i]
         /\ \A c \in 1..Len(A.columns) :
              A.values[i][c] = KnownYield(dietmin.index[i], A.columns[c])
    /\ \A j \in 1..Len(dietmax.index) :
         LET i == Len(dietmin.index) + j
         IN  /\ A.index[i] = dietmax.index[j]
             /\ b.values[i] = Neg(dietmax.values[j])
             /\ \A c \in 1..Len(A.columns) :
                  A.values[i][c] = Neg(KnownYield(dietmax.index[j], A.columns[c]))

\* C8: row i of the matrix and entry i of the bound vector carry the same
\* label at the same position and have the same orientation (a positive
\* bound beside yields, a negative bound beside negated yields or the -1 of
\* the weight row), before and after the weight row.
C8_RowsMatchBounds ==
  pc \in {"built", "ready", "done"} =>
    /\ A.index = b.index
    /\ Len(A.values) = Len(A.index)
    /\ Len(b.values) = Len(b.index)
    /\ result.A.index = result.b.index
    /\ \A i \in 1..Len(b.values) : \A c \in 1..Len(A.columns) :
         \/ IsNaN(A.values[i][c])
         \/ A.values[i][c].v = 0
         \/ (A.values[i][c].v > 0) = (b.values[i].v > 0)

\* minimum rows, maximum rows and an appended weight row
C8_Witness ==
  /\ pc = "ready"
  /\ dietmin.index # <<>>
  /\ dietmax.index # <<>>
  /\ max_weight.given
  /\ Len(A.index) = Len(dietmin.index) + Len(dietmax.index) + 1
  /\ A.index[Len(A.index)] = Hectograms

\* C9: no cell of the matrix handed to the backend is the missing marker.
C9_CellsDefined ==
  pc = "ready" =>
    \A r \in 1..Len(A.values) : \A c \in 1..Len(A.values[r]) : ~IsNaN(A.values[r][c])

\* the matrix and the bounds that lines 71-111 build from the arguments
BuiltA == InstanceA(FoodNutrients, Prices, dietmin, dietmax)
BuiltB == StackB(dietmin, dietmax)

\* C10: with a weight, the instance is the one built before with one row
\* appended, -1 under every good and minus the weight as its bound; without
\* a weight the instance is the one built before.
C10_WeightRowAppended ==
  pc \in {"ready", "done"} =>
    IF max_weight.given
      THEN /\ A.index = Append(BuiltA.index, Hectograms)
           /\ A.values = Append(BuiltA.values, [c \in 1..Len(A.columns) |-> Num(-1)])
           /\ b.index = Append(BuiltB.index, Hectograms)
           /\ b.values = Append(BuiltB.values, Num(-(max_weight.v)))
      ELSE A = BuiltA /\ b = BuiltB

\* the instance holds no missing marker
WellFormed(M, rhs) ==
  /\ \A r \in 1..Len(M.values) : \A c \in 1..Len(M.values[r]) : ~IsNaN(M.values[r][c])
  /\ \A r \in 1..Len(rhs.values) : ~IsNaN(rhs.values[r])

\* no non-negative quantity vector satisfies every row
Infeasible(M, rhs) == \A x \in Candidates(Len(M.columns)) : ~Satisfies(M, rhs, x)

\* C11: for an instance without missing markers that no non-negative
\* quantity vector satisfies, the call raises nothing and returns success =
\* false with one quantity per usable good, each the missing marker.
C11_InfeasibleReported ==
  (pc \in {"done", "lp_raised"} /\ WellFormed(A, b) /\ Infeasible(A, b)) =>
    /\ pc = "done"
    /\ ~result.success
    /\ result.diet.index = p.index
    /\ Len(result.diet.values) = Cardinality(Usable)
    /\ \A i \in 1..Len(result.diet.values) : IsNaN(result.diet.values[i])

\* C12: the cost of a result that reports failure is no number.
C12_CostUndefined ==
  (pc = "done" /\ ~result.success) => result.fun \notin Int

\* C19: the backend's matrix and bounds are the instance's with every cell
\* negated once, so that the candidates the backend admits are those that
\* satisfy A.x >= b and it succeeds exactly when there is one; the A and b of
\* the result are the instance itself, on success and on failure.
C19_NegatedOnce ==
  pc = "done" =>
    /\ \A r \in 1..Len(A.values) :
         /\ LpBounds(b)[r] = Neg(b.values[r])
         /\ \A c \in 1..Len(A.columns) : LpMatrix(A)[r][c] = Neg(A.values[r][c])
    /\ \A x \in Candidates(Len(p.index)) :
         LpFeasible([r \in 1..Len(A.values) |-> Ints(LpMatrix(A)[r])], Ints(LpBounds(b)), x)
           <=> Satisfies(A, b, x)
    /\ result.success <=> ~Infeasible(A, b)
    /\ result.A = A
    /\ result.b = b
    /\ ~max_weight.given => (result.A = BuiltA /\ result.b = BuiltB)

\* a failed solve of an instance with minimum rows and maximum rows
C19_Witness ==
  /\ pc = "done"
  /\ ~result.success
  /\ dietmin.index # <<>>
  /\ dietmax.index # <<>>
  /\ result.A.index = dietmin.index \o dietmax.index

\* C20: without a usable good the instance is built, with no column, and
\* nothing is raised; with a positive bound in it the call returns success =
\* false.
C20_EmptyUsable ==
  Usable = {} =>
    /\ pc \notin {"build_raised", "weight_raised"}
    /\ pc \in {"built", "ready", "done", "lp_raised"} => Len(A.columns) = 0
    /\ (pc \in {"done", "lp_raised"} /\ \E i \in 1..Len(b.values) : b.values[i].v > 0) =>
         (pc = "done" /\ ~result.success)

\* lines 57-133 as one function of the arguments: whether the call raises,
\* and the result it returns when it does not
solve_subsistence_problem(F, P, bmin, bmax, w) ==
  LET q == PriceVector(P, F)
      M0 == InstanceA(F, P, bmin, bmax)
      rhs0 == StackB(bmin, bmax)
      M == IF w.given THEN FrameSetLoc(M0, Hectograms, Num(-1)) ELSE M0
      rhs == IF w.given THEN SeriesSetLoc(rhs0, Hectograms, Num(-(w.v))) ELSE rhs0
      r == Backend(CostVector(q), LpMatrix(M), LpBounds(rhs))
  IN  IF \/ InstanceRaises(F, P, bmin, bmax)
         \/ w.given /\ FrameSetLocRaises(M0, Hectograms)
         \/ LpRaises(CostVector(q), LpMatrix(M), LpBounds(rhs))
        THEN [raised |-> TRUE, result |-> NoResult]
        ELSE [raised |-> FALSE, result |-> Returned(r, M, rhs, q)]

\* the same arguments without max_weight
Uncapped == solve_subsistence_problem(FoodNutrients, Prices, dietmin, dietmax, NoWeight)

\* the cheapest quantity vectors of an instance, given its least cost
Optima(M, rhs, c, least) ==
  {x \in Candidates(Len(c)) : Satisfies(M, rhs, x) /\ Dot(c, x) = least}

\* C16: when the call without max_weight returns an optimum, the call with
\* max_weight returns no successful result that costs less; and when every
\* cheapest uncapped quantity vector weighs more than max_weight, it fails or
\* costs strictly more.
C16_CapNeverCheaper ==
  (pc = "done" /\ max_weight.given) =>
    LET u == Uncapped
        best == Optima(u.result.A, u.result.b, Ints(CostVector(p)), u.result.fun)
    IN  (~u.raised /\ u.result.success) =>
          /\ result.success => result.fun >= u.result.fun
          /\ (\A x \in best : Sum(x) > max_weight.v) =>
               (~result.success \/ result.fun > u.result.fun)

-----------------------------------------------------------------------------
(* Bounds at two levels: calls whose bounds are drawn at their value or    *)
(* tightened once, over catalogues and price series that hold the first    *)
(* good, so that the cheapest quantities are whole and within MaxQty.      *)

\* a minimum and the minimum raised, a maximum and the maximum lowered
MinLevels(n) == {MinOf(n), 2 * MinOf(n)}
MaxLevels(n) == {MaxOf(n), MaxOf(n) \div 2}

LevelWeights == {1, 3}

LevelSeries(idx, v) == [index |-> idx, values |-> [i \in 1..Len(idx) |-> Num(v[i])]]

MinChoices(idx) ==
  {v \in [1..Len(idx) -> UNION {MinLevels(n) : n \in Nutrients}] :
     \A i \in 1..Len(idx) : v[i] \in MinLevels(idx[i])}

MaxChoices(idx) ==
  {v \in [1..Len(idx) -> UNION {MaxLevels(n) : n \in Nutrients}] :
     \A i \in 1..Len(idx) : v[i] \in MaxLevels(idx[i])}

InitLevels ==
  /\ \E idx \in GoodOrders :
       /\ GoodNames[1] \in Range(idx)
       /\ Prices = PriceSeries(idx, {}, TRUE)
  /\ \E cols \in GoodOrders :
       /\ GoodNames[1] \in Range(cols)
       /\ FoodNutrients = Catalogue(<<Hectograms, "N">>, cols)
  /\ \E idx \in NutrientOrders :
       \E v \in MinChoices(idx) : dietmin = LevelSeries(idx, v)
  /\ \E idx \in NutrientOrders :
       \E v \in MaxChoices(idx) : dietmax = LevelSeries(idx, v)
  /\ max_weight \in {NoWeight} \cup {Weight(w) : w \in LevelWeights}
  /\ backend = Converges
  /\ calls = 0
  /\ NoAnalysis
  /\ Entry

SpecLevels == InitLevels /\ [][Next]_vars

\* s with entry i replaced by v
SeriesWith(s, i, v) ==
  [index |-> s.index,
   values |-> [k \in 1..Len(s.values) |-> IF k = i THEN Num(v) ELSE s.values[k]]]

\* the pairs of bounds that differ from (dietmin, dietmax) in one minimum
\* that is higher or in one maximum that is lower
Tightened ==
  {<<SeriesWith(dietmin, i, v), dietmax>> :
     <<i, v>> \in {<<i, v>> \in (1..Len(dietmin.index)) \X UNION {MinLevels(n) : n \in Nutrients} :
                     v \in MinLevels(dietmin.index[i]) /\ v > dietmin.values[i].v}}
  \cup
  {<<dietmin, SeriesWith(dietmax, i, v)>> :
     <<i, v>> \in {<<i, v>> \in (1..Len(dietmax.index)) \X UNION {MaxLevels(n) : n \in Nutrients} :
                     v \in MaxLevels(dietmax.index[i]) /\ v < dietmax.values[i].v}}

\* C15: a call that differs from the returned one in one bound that is
\* tighter returns too; if both succeed it costs no less, and if the
\* returned one failed it fails.
C15_TighteningMonotone ==
  pc = "done" =>
    \A t \in Tightened :
      LET second == solve_subsistence_problem(FoodNutrients, Prices, t[1], t[2], max_weight)
      IN  /\ ~second.raised
          /\ (result.success /\ second.result.success) =>
               second.result.fun >= result.fun
          /\ ~result.success => ~second.result.success

\* a solved instance, a tightening of which costs more and another
\* tightening of which has no solution
C15_Witness ==
  /\ pc = "done"
  /\ result.success
  /\ \E t \in Tightened :
       LET second == solve_subsistence_problem(FoodNutrients, Prices, t[1], t[2], max_weight)
       IN  second.result.success /\ second.result.fun > result.fun
  /\ \E t \in Tightened :
       ~solve_subsistence_problem(FoodNutrients, Prices, t[1], t[2], max_weight).result.success

\* the arguments of the scenario: A at 1 with 10 of N, B at 2 with 5 of N, a
\* minimum of 20 of N, no maximum, no max_weight
Scenario ==
  /\ Range(Prices.index) = {"A", "B"}
  /\ \A i \in 1..Len(Prices.index) :
       Prices.values[i].magnitude = Num(IF Prices.index[i] = "A" THEN 1 ELSE 2)
  /\ Range(FoodNutrients.columns) = {"A", "B"}
  /\ KnownYield("N", "A") = Num(10)
  /\ KnownYield("N", "B") = Num(5)
  /\ dietmin = [index |-> <<"N">>, values |-> <<Num(20)>>]
  /\ dietmax = EmptySeries
  /\ ~max_weight.given

\* the quantity result.diet holds for good g
DietOf(g) == result.diet.values[FirstPos(result.diet.index, g)]

\* C17: the call of the scenario raises nothing and returns success with 2 of
\* A, 0 of B and a cost of 2.
C17_Scenario ==
  Scenario =>
    /\ ~Raised
    /\ pc = "done" =>
         /\ result.success
         /\ Range(result.diet.index) = {"A", "B"}
         /\ DietOf("A") = Num(2)
         /\ DietOf("B") = Num(0)
         /\ result.fun = 2

\* the scenario solved, with prices and catalogue listing the goods in
\* different orders
C17_Witness ==
  /\ Scenario
  /\ pc = "done"
  /\ Prices.index # FoodNutrients.columns

-----------------------------------------------------------------------------
(* Calls on a machine where the backend converges and on one where it      *)
(* breaks down.                                                            *)

InitNumerics ==
  /\ \E idx \in GoodOrders : Prices = PriceSeries(idx, {}, TRUE)
  /\ \E cols \in GoodOrders : FoodNutrients = Catalogue(<<Hectograms, "N">>, cols)
  /\ \E idx \in NutrientOrders : dietmin = MinSeries(idx)
  /\ \E idx \in NutrientOrders : dietmax = MaxSeries(idx)
  /\ max_weight \in {NoWeight} \cup {Weight(w) : w \in LevelWeights}
  /\ backend \in {Converges, BreaksDown}
  /\ calls = 0
  /\ NoAnalysis
  /\ Entry

SpecNumerics == InitNumerics /\ [][Next]_vars

C18_WitnessInfeasible ==
  /\ pc = "done"
  /\ backend = Converges
  /\ Infeasible(A, b)
  /\ ~result.success

-----------------------------------------------------------------------------
(* Calls whose arguments may repeat a label.                               *)

\* the sequences over S of length lo to hi, repeats allowed
SeqsOf(S, lo, hi) == UNION {[1..n -> S] : n \in lo..hi}

InitDuplicates ==
  /\ \E idx \in SeqsOf(Goods, 1, 2) : Prices = PriceSeries(idx, {}, TRUE)
  /\ \E rows \in CatalogueRows \cup {<<"N", "N">>} :
       \E cols \in SeqsOf(Goods, 1, 2) :
         FoodNutrients = Catalogue(rows, cols)
  /\ \E idx \in SeqsOf(Nutrients, 0, 2) : dietmin = MinSeries(idx)
  /\ \E idx \in NutrientOrders : dietmax = MaxSeries(idx)
  /\ max_weight \in {NoWeight} \cup {Weight(w) : w \in Weights}
  /\ backend = Converges
  /\ calls = 0
  /\ NoAnalysis
  /\ Entry

SpecDuplicates == InitDuplicates /\ [][Next]_vars

\* a label occurs twice in the prices, in the catalogue or in the bounds
HasDuplicate ==
  \/ ~IsUnique(Prices.index)
  \/ ~IsUnique(FoodNutrients.columns)
  \/ ~IsUnique(FoodNutrients.index)
  \/ ~IsUnique(dietmin.index)
  \/ ~IsUnique(dietmax.index)

\* C13: a call whose arguments repeat a label raises before the backend is
\* called: it never has an instance ready for it and never returns.
C13_DuplicatesFail ==
  HasDuplicate => pc \notin {"ready", "done", "lp_raised"}

-----------------------------------------------------------------------------
(* Calls made one after the other.  What a call that ended left in p, A, b *)
(* and result is still there when the next call begins.                    *)

\* every good, in the order of their names
AllGoods == [i \in 1..NumGoods |-> GoodNames[i]]

\* the goods a call has prices for: one of them, or all
CallGoods == {<<g>> : g \in Goods} \cup {AllGoods}

InitCalls ==
  /\ \E idx \in CallGoods : Prices = PriceSeries(idx, {}, TRUE)
  /\ \E rows \in CatalogueRows : FoodNutrients = Catalogue(rows, AllGoods)
  /\ \E idx \in NutrientOrders : dietmin = MinSeries(idx)
  /\ dietmax = EmptySeries
  /\ max_weight \in {NoWeight} \cup {Weight(w) : w \in Weights}
  /\ backend = Converges
  /\ calls = 0
  /\ NoAnalysis
  /\ Entry

\* line 133 and line 57 of the next call: the call has ended and the next
\* one begins with arguments of its own
NewCall ==
  /\ pc = "done" \/ Raised
  /\ calls < MaxCalls
  /\ calls' = calls + 1
  /\ \E idx \in CallGoods : Prices' = PriceSeries(idx, {}, TRUE)
  /\ \E rows \in CatalogueRows : FoodNutrients' = Catalogue(rows, AllGoods)
  /\ \E idx \in NutrientOrders : dietmin' = MinSeries(idx)
  /\ dietmax' = EmptySeries
  /\ max_weight' \in {NoWeight} \cup {Weight(w) : w \in Weights}
  /\ pc' = "start"
  /\ UNCHANGED <<p, A, b, result, backend, analysis>>

NextCalls == Next \/ NewCall

SpecCalls == InitCalls /\ [][NextCalls]_vars

\* C14: whatever calls came before it, a call raises or returns as the
\* function of its own arguments does, with that function's success flag,
\* cost and quantities; so two calls with equal arguments return equal ones.
C14_Deterministic ==
  LET call == solve_subsistence_problem(FoodNutrients, Prices, dietmin, dietmax, max_weight)
  IN  /\ pc = "done" =>
           /\ ~call.raised
           /\ result.success = call.result.success
           /\ result.fun = call.result.fun
           /\ result.x = call.result.x
           /\ result.diet = call.result.diet
      /\ Raised => call.raised

\* the last of the calls has returned
C14_Witness ==
  /\ pc = "done"
  /\ calls = MaxCalls
  /\ result.success

-----------------------------------------------------------------------------
-----------------------------------------------------------------------------
(* The analysis cell run on the result of a call.  The bounds that are     *)
(* drawn leave differences between outcome and recommendation on both      *)
(* sides of tol and of 100 * tol.                                          *)

ReportMinLevels(n) == IF n = "N" THEN {10, 25} ELSE {MinOf(n)}
ReportMaxLevels(n) == IF n = "N" THEN {12, 20, 210, 211} ELSE {MaxOf(n), 201}

ReportMinChoices(idx) ==
  {v \in [1..Len(idx) -> UNION {ReportMinLevels(n) : n \in Nutrients}] :
     \A i \in 1..Len(idx) : v[i] \in ReportMinLevels(idx[i])}

ReportMaxChoices(idx) ==
  {v \in [1..Len(idx) -> UNION {ReportMaxLevels(n) : n \in Nutrients}] :
     \A i \in 1..Len(idx) : v[i] \in ReportMaxLevels(idx[i])}

InitReport ==
  /\ \E idx \in GoodOrders : Prices = PriceSeries(idx, {}, TRUE)
  /\ FoodNutrients = Catalogue(<<Hectograms, "N">>, AllGoods)
  /\ \E idx \in NutrientOrders :
       \E v \in ReportMinChoices(idx) : dietmin = LevelSeries(idx, v)
  /\ \E idx \in NutrientOrders :
       \E v \in ReportMaxChoices(idx) : dietmax = LevelSeries(idx, v)
  /\ max_weight \in {NoWeight} \cup {Weight(w) : w \in Weights}
  /\ backend \in {Converges, BreaksDown}
  /\ calls = 0
  /\ NoAnalysis
  /\ Entry

\* lines 619-636, once the call of line 618 has returned
Analyse ==
  /\ pc = "done"
  /\ tab' = Tab(result)
  /\ excess' = Excess(Tab(result))
  /\ printed' = [cost |-> result.fun,
                 diet |-> PrintedDiet(result.diet),
                 constraining |-> Constraining(Excess(Tab(result)))]
  /\ pc' = "analysed"
  /\ UNCHANGED <<inputs, p, A, b, result, backend, calls>>

NextReport == Next \/ Analyse

SpecReport == InitReport /\ [][NextReport]_vars

\* the weight row of a solved instance: with a weight given, every row
\* labelled Hectograms holds the -1 of line 115
IsWeightRow(i) == max_weight.given /\ result.A.index[i] = Hectograms

\* the yields of nutrient n in the catalogue times the quantities returned
RealizedTotal(n) ==
  Sum([i \in 1..Len(result.diet.index) |->
         KnownYield(n, result.diet.index[i]).v * result.diet.values[i].v])

\* the sum of the quantities returned
TotalQuantity == Sum([i \in 1..Len(result.diet.index) |-> result.diet.values[i].v])

\* the bound the caller gave for row i of the stacked rows
OriginalBound(i) ==
  IF i <= Len(dietmin.index)
    THEN dietmin.values[i]
    ELSE dietmax.values[i - Len(dietmin.index)]

Ascending(S) ==
  CHOOSE s \in [1..Cardinality(S) -> S] :
    \A i, j \in 1..Cardinality(S) : i < j => s[i] < s[j]

\* the distance between the outcome and the recommendation of line i of the
\* table, where both are numbers
Distance(i) ==
  LET d == tab.values[i][2].v - tab.values[i][1].v
  IN  IF d < 0 THEN -d ELSE d

Numeric(i) == ~IsNaN(tab.values[i][1]) /\ ~IsNaN(tab.values[i][2])

\* the labels, in the order of the table, of the lines whose outcome and
\* recommendation are less than t apart, or at most t apart
LabelsBelow(t) ==
  Take(tab.index, Ascending({i \in 1..Len(tab.index) : Numeric(i) /\ Distance(i) < t}))
LabelsAtMost(t) ==
  Take(tab.index, Ascending({i \in 1..Len(tab.index) : Numeric(i) /\ Distance(i) <= t}))

PrintedOf(g) == printed.diet.values[FirstPos(printed.diet.index, g)]

-----------------------------------------------------------------------------
(* The arguments of a call: prices that are all quantities with units or   *)
(* all plain numbers, with and without a weight, on a machine where the    *)
(* backend converges and on one where it breaks down.                      *)

\* the goods of the catalogues that are drawn: all of them, or the first alone
CatalogueGoods == {AllGoods, <<GoodNames[1]>>}

InitArguments ==
  /\ \E idx \in GoodOrders :
       \E units \in BOOLEAN : Prices = PriceSeries(idx, {}, units)
  /\ \E rows \in CatalogueRows :
       \E cols \in CatalogueGoods : FoodNutrients = Catalogue(rows, cols)
  /\ \E idx \in NutrientOrders : dietmin = MinSeries(idx)
  /\ \E idx \in NutrientOrders : dietmax = MaxSeries(idx)
  /\ max_weight \in {NoWeight} \cup {Weight(w) : w \in Weights}
  /\ backend \in {Converges, BreaksDown}
  /\ calls = 0
  /\ NoAnalysis
  /\ Entry

SpecArguments == InitArguments /\ [][Next]_vars

\* C24: no step of a call changes the catalogue, the price series, the
\* series of minimum bounds, the series of maximum bounds or the weight the
\* caller passed, in content or in order, whether the call has a weight row
\* or not and whether it returns success, returns failure or raises.
C24_ArgumentsUnchanged == [][inputs' = inputs]_vars

\* a call with a weight has returned an instance that holds a filled zero,
\* negated maximum bounds and the weight row, and the arguments hold none of
\* them
C24_Witness ==
  /\ pc = "done"
  /\ max_weight.given
  /\ dietmax.index # <<>>
  /\ \E r \in 1..Len(FoodNutrients.index), c \in 1..Len(FoodNutrients.columns) :
       /\ IsNaN(FoodNutrients.values[r][c])
       /\ FoodNutrients.columns[c] \in Range(result.A.columns)
  /\ \A r \in 1..Len(result.A.values) :
       \A c \in 1..Len(result.A.values[r]) : ~IsNaN(result.A.values[r][c])
  /\ \E i \in 1..Len(result.b.values) : result.b.values[i].v < 0
  /\ \A i \in 1..Len(dietmax.values) : dietmax.values[i].v > 0
  /\ Len(result.b.index) > Len(dietmin.index) + Len(dietmax.index)

-----------------------------------------------------------------------------
(* Prices without units.                                                   *)

\* no price of the series is a quantity with a unit
Unitless == \A i \in 1..Len(Prices.values) : ~Prices.values[i].hasMagnitude

\* the cost coefficient of good g in the instance
CostOf(g) == CostVector(p)[FirstPos(p.index, g)]

\* C25, as the code has it: when the prices carry no unit magnitude the build
\* does not fail on that account and leaves no good out for it: every good of
\* the catalogue with such a price, the price not missing, is a good of the
\* instance, and the price as given is its cost coefficient in the problem
\* that is solved.
C25_UnitlessTakenAsGiven ==
  Unitless =>
    /\ pc \in {"built", "ready", "done"} =>
         \A i \in 1..Len(Prices.index) :
           (InCatalogue(Prices.index[i]) /\ ~IsNaN(Prices.values[i].magnitude)) =>
             /\ Prices.index[i] \in Range(p.index)
             /\ CostOf(Prices.index[i]) = Prices.values[i].magnitude
    /\ pc = "done" =>
         result.fun = Dot(Ints(CostVector(p)), result.x)

\* C25 as stated: a good whose price carries no unit magnitude is not a good
\* of an instance that was built, so its price is no cost coefficient.
C25_UnitlessNeverACost ==
  pc \in {"built", "ready", "done"} =>
    \A i \in 1..Len(Prices.index) :
      ~Prices.values[i].hasMagnitude => Prices.index[i] \notin Range(p.index)

\* a call with prices without units has returned a diet that costs something
C25_Witness ==
  /\ Unitless
  /\ pc = "done"
  /\ result.success
  /\ result.fun > 0
  /\ \E i \in 1..Len(Prices.index) :
       /\ Prices.index[i] \in Range(p.index)
       /\ CostOf(Prices.index[i]) = Prices.values[i].magnitude

====
